---- MODULE Spec2Model ----
(***************************************************************************)
(* Model of src/handler.py: the seismic-record ingestion handler.          *)
(*                                                                         *)
(* lambda_handler reads a year range from the event, fetches each year     *)
(* from the upstream API (obtener_sismos_por_anio), normalizes the records *)
(* (id, fecha_hora_local, procesado_en, numeric coercion), empties the     *)
(* table (limpiar_tabla) and inserts the records (insertar_items).         *)
(*                                                                         *)
(* Python values are modelled as tagged records so that values of          *)
(* different Python types stay comparable.                                 *)
(***************************************************************************)
EXTENDS Integers, Sequences, FiniteSets, TLC

(***************************************************************************)
(* Bounds of the model and constants of the program.                       *)
(***************************************************************************)
\* Number of distinct years a request may name (counted down from the default).
YearSpan == 2
\* Longest JSON array the upstream returns for one year.
MaxRecs == 1
\* Number of successive invocations of lambda_handler.
MaxRuns == 2

DEFAULT_START_YEAR == 2025
DEFAULT_END_YEAR == DEFAULT_START_YEAR

ReqYears == (DEFAULT_START_YEAR - YearSpan + 1)..DEFAULT_START_YEAR

(***************************************************************************)
(* Python values.                                                          *)
(***************************************************************************)
\* A value stored under a key of a mapping: t is the Python type.
PyInt(n) == [t |-> "int", n |-> n, s |-> ""]
PyStr(s) == [t |-> "str", n |-> 0, s |-> s]
PyNone == [t |-> "none", n |-> 0, s |-> ""]
\* Marker for "the key is not in the mapping".
Absent == [t |-> "absent", n |-> 0, s |-> ""]

\* uuid.uuid4() rendered as a string: the n-th identifier drawn; two draws
\* never coincide.
Uuid4(n) == [t |-> "uuid", n |-> n, s |-> ""]

\* Python truthiness of a value.
Truthy(v) ==
    CASE v.t = "none" -> FALSE
      [] v.t = "absent" -> FALSE
      [] v.t = "str" -> v.s # ""
      [] v.t = "int" -> v.n # 0
      [] OTHER -> TRUE

\* int(v): [ok, n]; a non-numeric string or None raises.
ToInt(v) ==
    CASE v.t = "int" -> [ok |-> TRUE, n |-> v.n]
      [] OTHER -> [ok |-> FALSE, n |-> 0]

\* dict.get(key, default) on a mapping whose value under key is v.
DictGet(v, default) == IF v.t = "absent" THEN default ELSE v

(***************************************************************************)
(* The invocation event (lambda_handler's first argument).                 *)
(***************************************************************************)
\* Values a request may carry under start_year / end_year.
YearVals == {PyInt(y) : y \in ReqYears} \cup {Absent, PyNone, PyStr("x")}

\* A JSON text: either it does not parse, or it parses to a JSON object with
\* the two keys (each possibly absent), or it parses to a JSON array.
JsonTexts ==
    {[parses |-> FALSE, is_map |-> FALSE, start_year |-> Absent, end_year |-> Absent]}
    \cup {[parses |-> TRUE, is_map |-> FALSE, start_year |-> Absent, end_year |-> Absent]}
    \cup {[parses |-> TRUE, is_map |-> TRUE, start_year |-> s, end_year |-> e] :
            s \in YearVals, e \in YearVals}

NoText == [parses |-> FALSE, is_map |-> FALSE, start_year |-> Absent, end_year |-> Absent]

\* kind "dict": a mapping without a string under "body" (direct invocation);
\* kind "proxy": a mapping whose "body" is a string (HTTP API invocation);
\* kind "none": the event is None.
Events ==
    {[kind |-> "dict", start_year |-> s, end_year |-> e, body |-> NoText] :
        s \in YearVals, e \in YearVals}
    \cup {[kind |-> "proxy", start_year |-> Absent, end_year |-> Absent, body |-> t] :
        t \in JsonTexts}
    \cup {[kind |-> "none", start_year |-> Absent, end_year |-> Absent, body |-> NoText]}

\* The event once lambda_handler has read it (it is not read again).
EventRead == [kind |-> "read", start_year |-> Absent, end_year |-> Absent, body |-> NoText]

\* A mapping as lambda_handler sees it after lines 154-160.
Mapping(s, e) == [is_map |-> TRUE, start_year |-> s, end_year |-> e]
EmptyMapping == Mapping(Absent, Absent)
NotAMapping == [is_map |-> FALSE, start_year |-> Absent, end_year |-> Absent]

\* json.loads(text): [ok, value]; ok = FALSE when it raises.
JsonLoads(text) ==
    IF ~text.parses THEN [ok |-> FALSE, value |-> EmptyMapping]
    ELSE IF text.is_map THEN [ok |-> TRUE, value |-> Mapping(text.start_year, text.end_year)]
    ELSE [ok |-> TRUE, value |-> NotAMapping]

\* Lines 154-160: the body lambda_handler works on.
ReadBody(ev) ==
    CASE ev.kind = "proxy" ->
            IF JsonLoads(ev.body).ok THEN JsonLoads(ev.body).value ELSE EmptyMapping
      [] ev.kind = "dict" -> Mapping(ev.start_year, ev.end_year)
      [] OTHER -> EmptyMapping

\* Lines 162-163: [ok, start, end]; ok = FALSE when get() or int() raises.
ReadYears(body) ==
    LET s == ToInt(DictGet(body.start_year, PyInt(DEFAULT_START_YEAR)))
        e == ToInt(DictGet(body.end_year, PyInt(DEFAULT_END_YEAR)))
    IN  IF ~body.is_map \/ ~s.ok \/ ~e.ok
        THEN [ok |-> FALSE, start |-> 0, end |-> 0]
        ELSE [ok |-> TRUE, start |-> s.n, end |-> e.n]

\* Variant: the range is used as given.
NoSwap(s, e) == [start |-> s, end |-> e]

\* Lines 164-165.
SwapIfReversed(s, e) ==
    IF e < s THEN [start |-> e, end |-> s] ELSE [start |-> s, end |-> e]

(***************************************************************************)
(* HTTP responses of the handler (lines 238-250).                          *)
(***************************************************************************)
NoResponse == [statusCode |-> 0, body |-> [none |-> TRUE]]

http_ok(data) == [statusCode |-> 200, body |-> data]

http_error(msg) == [statusCode |-> 500, body |-> [error |-> msg]]

(***************************************************************************)
(* The upstream API and obtener_sismos_por_anio (lines 118-142).           *)
(***************************************************************************)
\* A raw record of the JSON array for a year: a JSON object whose "id" is a
\* non-empty string, an empty string or missing; or an element that is not a
\* JSON object at all.  (A null id goes through the same lines as an empty
\* one: line 193 looks at the key only.)  year tags the record with the year
\* whose response carried it (it stands for the fields that pass through).
RawIds == {PyStr("a"), PyStr(""), Absent}

RawRecords(y) ==
    {[is_map |-> TRUE, id |-> i, year |-> y] : i \in RawIds}
    \cup {[is_map |-> FALSE, id |-> Absent, year |-> y]}

SeqsUpTo(S, n) == UNION {[1..k -> S] : k \in 0..n}

\* What requests.get does for a year: it raises (neterr), or it returns a
\* status and a body text that parses to an array of records or does not parse.
HttpResults(y) ==
    {[neterr |-> TRUE, status |-> 0, parses |-> FALSE, data |-> <<>>]}
    \cup {[neterr |-> FALSE, status |-> 200, parses |-> FALSE, data |-> <<>>]}
    \cup {[neterr |-> FALSE, status |-> 200, parses |-> TRUE, data |-> d] :
            d \in SeqsUpTo(RawRecords(y), MaxRecs)}
    \cup {[neterr |-> FALSE, status |-> st, parses |-> TRUE, data |-> d] :
            st \in {404, 503},
            d \in {<<>>, <<[is_map |-> TRUE, id |-> PyStr("a"), year |-> y]>>}}

NotFetched == [neterr |-> FALSE, status |-> -1, parses |-> FALSE, data |-> <<>>]

\* Error strings: str(e) of a request or JSON exception, or "HTTP <status>".
ErrRequest == [kind |-> "request", status |-> 0]
ErrJson == [kind |-> "json", status |-> 0]
ErrHttp(st) == [kind |-> "HTTP", status |-> st]
NoError == [kind |-> "", status |-> 0]

\* Variant: every status other than 200 counts as "no data for this year".
obtener_any_status_ok(r) ==
    IF r.neterr THEN [ok |-> FALSE, error |-> ErrRequest, items |-> <<>>]
    ELSE IF r.status = 200 THEN
        IF r.parses THEN [ok |-> TRUE, error |-> NoError, items |-> r.data]
        ELSE [ok |-> FALSE, error |-> ErrJson, items |-> <<>>]
    ELSE [ok |-> TRUE, error |-> NoError, items |-> <<>>]

\* Variant: 404 is classified like any other bad status.
obtener_404_is_error(r) ==
    IF r.neterr THEN [ok |-> FALSE, error |-> ErrRequest, items |-> <<>>]
    ELSE IF r.status = 200 THEN
        IF r.parses THEN [ok |-> TRUE, error |-> NoError, items |-> r.data]
        ELSE [ok |-> FALSE, error |-> ErrJson, items |-> <<>>]
    ELSE [ok |-> FALSE, error |-> ErrHttp(r.status), items |-> <<>>]

\* obtener_sismos_por_anio, given what requests.get did.
obtener_sismos_por_anio(r) ==
    IF r.neterr THEN [ok |-> FALSE, error |-> ErrRequest, items |-> <<>>]
    ELSE IF r.status = 200 THEN
        IF r.parses THEN [ok |-> TRUE, error |-> NoError, items |-> r.data]
        ELSE [ok |-> FALSE, error |-> ErrJson, items |-> <<>>]
    ELSE IF r.status = 404 THEN [ok |-> TRUE, error |-> NoError, items |-> <<>>]
    ELSE [ok |-> FALSE, error |-> ErrHttp(r.status), items |-> <<>>]

(***************************************************************************)
(* Normalization of the records of one year (lines 189-202).               *)
(***************************************************************************)
\* r.setdefault("id", str(uuid.uuid4())): only a missing key is filled.
SetDefaultId(rec, n) == IF rec.id.t = "absent" THEN Uuid4(n) ELSE rec.id

\* One pass of the loop body: the stored record.  procesado_en is the time of
\* the run; fecha_hora_local is computed by unir_fecha_hora below and
\* safe_convert_numbers touches only the four numeric keys.
Normalize(rec, n, now) ==
    [id |-> SetDefaultId(rec, n), year |-> rec.year, procesado_en |-> now]

\* The loop of lines 191-202 over items, drawing identifiers from n on:
\* [ok, processed, n]; ok = FALSE when dict(rec) raises on a non-object.
RECURSIVE NormalizeAll(_, _, _)
NormalizeAll(items, n, now) ==
    IF items = <<>> THEN [ok |-> TRUE, processed |-> <<>>, n |-> n]
    ELSE IF ~Head(items).is_map THEN [ok |-> FALSE, processed |-> <<>>, n |-> n]
    ELSE LET rest == NormalizeAll(Tail(items), n + 1, now)
         IN  [ok |-> rest.ok,
              processed |-> <<Normalize(Head(items), n, now)>> \o rest.processed,
              n |-> rest.n]

\* Variant: the handler goes on to the table after the first year.
AfterYearAlwaysTable(year, end) == "limpiar"

\* Line 178: the loop goes on to the next year or falls through to line 212.
AfterYear(year, end) == IF year = end THEN "limpiar" ELSE "years"

(***************************************************************************)
(* Dates: parse_iso_z (lines 32-43) and unir_fecha_hora (lines 46-63).     *)
(***************************************************************************)
\* A value found under fecha_local / hora_local.  kind is
\*   "none"     the key is missing or null,
\*   "empty"    the empty string,
\*   "garbage"  a value no parser accepts,
\*   "iso"      a string datetime.fromisoformat accepts once Z is replaced,
\*   "strptime" a Z-suffixed string only the two strptime patterns accept.
\* zone is "Z", "offset" (a numeric offset of off minutes) or "naive" (none).
DateText(kind, Y, M, D, h, m, sec, us, zone, off) ==
    [kind |-> kind, Y |-> Y, M |-> M, D |-> D, h |-> h, m |-> m, sec |-> sec,
     us |-> us, zone |-> zone, off |-> off]

Zones == {<<"Z", 0>>, <<"offset", 330>>, <<"offset", -300>>, <<"naive", 0>>}

DateTexts ==
    {DateText("iso", 2024, md[1], md[2], hm[1], hm[2], 7, us, z[1], z[2]) :
        md \in {<<1, 1>>, <<2, 29>>, <<12, 31>>},
        hm \in {<<0, 15>>, <<23, 45>>},
        us \in {0, 123000},
        z \in Zones}
    \cup {DateText("strptime", 2023, 3, 1, 2, 30, 0, 500000, "Z", 0),
          DateText("none", 0, 0, 0, 0, 0, 0, 0, "naive", 0),
          DateText("empty", 0, 0, 0, 0, 0, 0, 0, "naive", 0),
          DateText("garbage", 0, 0, 0, 0, 0, 0, 0, "naive", 0)}

\* A datetime object; aware = FALSE when tzinfo is None.
DateTime(Y, M, D, h, m, sec, us, aware, off) ==
    [Y |-> Y, M |-> M, D |-> D, h |-> h, m |-> m, sec |-> sec, us |-> us,
     aware |-> aware, off |-> off]

NoDateTime == DateTime(0, 0, 0, 0, 0, 0, 0, FALSE, 0)

\* parse_iso_z: [ok, dt]; ok = FALSE stands for None.
parse_iso_z(t) ==
    CASE t.kind = "iso" ->
            [ok |-> TRUE,
             dt |-> DateTime(t.Y, t.M, t.D, t.h, t.m, t.sec, t.us,
                             t.zone # "naive", IF t.zone = "offset" THEN t.off ELSE 0)]
      [] t.kind = "strptime" ->
            [ok |-> TRUE,
             dt |-> DateTime(t.Y, t.M, t.D, t.h, t.m, t.sec, t.us, TRUE, 0)]
      [] OTHER -> [ok |-> FALSE, dt |-> NoDateTime]

IsLeap(Y) == (Y % 4 = 0 /\ Y % 100 # 0) \/ Y % 400 = 0

DaysInMonth(Y, M) ==
    CASE M \in {4, 6, 9, 11} -> 30
      [] M = 2 -> IF IsLeap(Y) THEN 29 ELSE 28
      [] OTHER -> 31

\* dt.astimezone(timezone.utc); a naive datetime is taken as local time,
\* local minutes east of UTC.
AsUtc(dt, local) ==
    LET off == IF dt.aware THEN dt.off ELSE local
        mins == dt.h * 60 + dt.m - off
        shift == IF mins < 0 THEN -1 ELSE IF mins >= 1440 THEN 1 ELSE 0
        mm == mins - shift * 1440
        prevM == IF dt.M = 1 THEN 12 ELSE dt.M - 1
        prevY == IF dt.M = 1 THEN dt.Y - 1 ELSE dt.Y
        date ==
            CASE shift = -1 /\ dt.D = 1 ->
                    <<prevY, prevM, DaysInMonth(prevY, prevM)>>
              [] shift = -1 /\ dt.D > 1 -> <<dt.Y, dt.M, dt.D - 1>>
              [] shift = 1 /\ dt.D = DaysInMonth(dt.Y, dt.M) ->
                    <<IF dt.M = 12 THEN dt.Y + 1 ELSE dt.Y,
                      IF dt.M = 12 THEN 1 ELSE dt.M + 1, 1>>
              [] shift = 1 /\ dt.D < DaysInMonth(dt.Y, dt.M) -> <<dt.Y, dt.M, dt.D + 1>>
              [] OTHER -> <<dt.Y, dt.M, dt.D>>
    IN  DateTime(date[1], date[2], date[3], mm \div 60, mm % 60, dt.sec, dt.us, TRUE, 0)

\* dt.isoformat().replace("+00:00", "Z") of a UTC datetime: the fraction is
\* left out when microsecond is 0 and has six digits otherwise.
IsoFormatZ(dt) ==
    [isnull |-> FALSE, Y |-> dt.Y, M |-> dt.M, D |-> dt.D, h |-> dt.h, m |-> dt.m,
     sec |-> dt.sec, frac_digits |-> IF dt.us = 0 THEN 0 ELSE 6, frac |-> dt.us,
     suffix |-> "Z"]

NullText ==
    [isnull |-> TRUE, Y |-> 0, M |-> 0, D |-> 0, h |-> 0, m |-> 0, sec |-> 0,
     frac_digits |-> 0, frac |-> 0, suffix |-> ""]

\* fecha.replace(hour=..., minute=..., second=..., microsecond=...).
ReplaceClock(fecha, hora) ==
    DateTime(fecha.Y, fecha.M, fecha.D, hora.h, hora.m, hora.sec, hora.us,
             fecha.aware, fecha.off)

\* unir_fecha_hora.  replace() cannot raise on the fields of a datetime, so
\* the handler of lines 62-63 is not entered.
unir_fecha_hora(fecha_str, hora_str, local) ==
    LET fecha == parse_iso_z(fecha_str)
        hora == parse_iso_z(hora_str)
    IN  IF ~fecha.ok THEN NullText
        ELSE IF ~hora.ok THEN IsoFormatZ(AsUtc(fecha.dt, local))
        ELSE IsoFormatZ(AsUtc(ReplaceClock(fecha.dt, hora.dt), local))

(***************************************************************************)
(* The table (DynamoDB, keyed by id) as the handler uses it.               *)
(***************************************************************************)
\* Items in the table before the first run (written at time 0).
OldItems ==
    {[id |-> PyStr("a"), year |-> 0, procesado_en |-> 0],
     [id |-> PyStr("z"), year |-> 0, procesado_en |-> 0]}

\* batch.put_item(Item=it): the item replaces the one stored under its key.
PutItem(tbl, it) == {x \in tbl : x.id # it.id} \cup {it}

\* batch.delete_item(Key={"id": it["id"]}) for each item of a page.
DeleteItems(tbl, page) == {x \in tbl : \A it \in page : x.id # it.id}

NoScan == [Items |-> {}, LastEvaluatedKey |-> FALSE]

\* Lines 89-90: the loop of limpiar_tabla ends on a page without items.
BreakOnEmptyPage(r) == r.Items = {}

\* Variant: an exception of limpiar_tabla is logged and the handler goes on.
LimpiarFailedGoOn(e) == [pc |-> "insert", response |-> NoResponse]

\* Lines 214-216: an exception of limpiar_tabla ends the run.
LimpiarFailed(e) ==
    [pc |-> "done",
     response |-> http_error([prefix |-> "Error limpiando tabla", exc |-> e])]

\* Lines 222-224: an exception of insertar_items ends the run.
InsertarFailed(e) ==
    [pc |-> "done",
     response |-> http_error([prefix |-> "Error al insertar en DynamoDB", exc |-> e])]

\* Variant: the exception is raised again.
UnexpectedReraised(e) == [pc |-> "escaped", response |-> NoResponse]

\* Lines 229-231: any other exception of the run.
Unexpected(e) ==
    [pc |-> "done",
     response |-> http_error([prefix |-> "Error inesperado", exc |-> e])]

(***************************************************************************)
(* State.                                                                  *)
(***************************************************************************)
VARIABLES
    pc,          \* position: start, years, limpiar, scan, page, insert, done
    run,         \* number of the invocation
    event,       \* the event, until the handler has read it
    req,         \* years as read by lines 162-163, and whether json.loads raised
    start,       \* start, end of the loop of line 178
    end,
    year,        \* loop variable of line 178
    upstream,    \* what the API answers for each year (fixed once observed)
    resumen,     \* years_processed, total_inserted, errors
    all_items_to_insert,
    uuid_n,      \* number of identifiers drawn from uuid4 so far
    table,       \* the items stored
    unscanned,   \* items the running scan has not returned yet
    resp,        \* last response of table.scan
    count,       \* count of insertar_items
    response,    \* what lambda_handler returned
    oplog,       \* the run's requests to the API and to the table, in order
    raised,      \* the exception raised in this run, "" if none
    table0,      \* the table when limpiar_tabla was called
    prev,        \* statusCode of the previous run
    dt           \* a call of unir_fecha_hora: its arguments, the local zone, its result

vars == <<pc, run, event, req, start, end, year, upstream, resumen,
          all_items_to_insert, uuid_n, table, unscanned, resp, count, response,
          oplog, raised, table0, prev, dt>>

AllYears == ReqYears \cup {DEFAULT_START_YEAR, DEFAULT_END_YEAR}

EmptyResumen == [years_processed |-> <<>>, total_inserted |-> 0, errors |-> <<>>]

Op(name, arg) == [op |-> name, arg |-> arg]

NoCall ==
    [called |-> FALSE, fecha_str |-> DateText("none", 0, 0, 0, 0, 0, 0, 0, "naive", 0),
     hora_str |-> DateText("none", 0, 0, 0, 0, 0, 0, 0, "naive", 0), local |-> 0,
     result |-> NullText]

\* State of one invocation before line 150.
RunInit ==
    /\ pc = "start"
    /\ event \in Events
    /\ req = [start |-> 0, end |-> 0, bad_body |-> FALSE]
    /\ start = 0
    /\ end = 0
    /\ year = 0
    /\ resumen = EmptyResumen
    /\ all_items_to_insert = <<>>
    /\ unscanned = {}
    /\ resp = NoScan
    /\ count = 0
    /\ response = NoResponse
    /\ oplog = <<>>
    /\ raised = ""
    /\ table0 = {}

Init ==
    /\ RunInit
    /\ run = 1
    /\ upstream = [y \in AllYears |-> NotFetched]
    /\ uuid_n = 0
    /\ table \in SUBSET OldItems
    /\ prev = 0
    /\ dt = NoCall

(***************************************************************************)
(* lambda_handler, lines 150-167: read the event, the years, the range.    *)
(***************************************************************************)
ReadEvent ==
    /\ pc = "start"
    /\ LET body == ReadBody(event)
           ys == ReadYears(body)
           sw == SwapIfReversed(ys.start, ys.end)
           bad == event.kind = "proxy" /\ ~JsonLoads(event.body).ok
       IN  IF ~ys.ok
           THEN /\ pc' = Unexpected("event").pc
                /\ response' = Unexpected("event").response
                /\ raised' = "event"
                /\ req' = [req EXCEPT !.bad_body = bad]
                /\ UNCHANGED <<start, end, year>>
           ELSE /\ req' = [start |-> ys.start, end |-> ys.end, bad_body |-> bad]
                /\ start' = sw.start
                /\ end' = sw.end
                /\ year' = sw.start
                /\ pc' = IF sw.start <= sw.end THEN "years" ELSE "limpiar"
                /\ UNCHANGED <<response, raised>>
    /\ event' = EventRead
    /\ UNCHANGED <<run, upstream, resumen, all_items_to_insert, uuid_n, table,
                   unscanned, resp, count, oplog, table0, prev, dt>>

(***************************************************************************)
(* Lines 178-209: one pass of the loop over the years.                     *)
(***************************************************************************)
ProcesarAnio ==
    /\ pc = "years"
    /\ \E r \in HttpResults(year) :
        /\ upstream[year] = NotFetched \/ upstream[year] = r
        /\ upstream' = [upstream EXCEPT ![year] = r]
        /\ oplog' = Append(oplog, Op("fetch", year))
        /\ LET res == obtener_sismos_por_anio(r)
               norm == NormalizeAll(res.items, uuid_n, run)
           IN  IF ~res.ok
               THEN /\ resumen' = [resumen EXCEPT !.errors =
                            Append(@, [year |-> year, error |-> res.error])]
                    /\ year' = year + 1
                    /\ pc' = AfterYear(year, end)
                    /\ UNCHANGED <<all_items_to_insert, uuid_n, response, raised>>
               ELSE IF ~norm.ok
               THEN /\ pc' = Unexpected("normalize").pc
                    /\ response' = Unexpected("normalize").response
                    /\ raised' = "normalize"
                    /\ uuid_n' = norm.n
                    /\ UNCHANGED <<resumen, all_items_to_insert, year>>
               ELSE /\ resumen' = [resumen EXCEPT !.years_processed =
                            Append(@, [year |-> year, count |-> Len(norm.processed)])]
                    /\ all_items_to_insert' = all_items_to_insert \o norm.processed
                    /\ uuid_n' = norm.n
                    /\ year' = year + 1
                    /\ pc' = AfterYear(year, end)
                    /\ UNCHANGED <<response, raised>>
    /\ UNCHANGED <<run, event, req, start, end, table, unscanned, resp, count,
                   table0, prev, dt>>

(***************************************************************************)
(* limpiar_tabla (lines 81-104) and its call (lines 212-216).              *)
(***************************************************************************)
\* table.scan over the items in pool: any page of them, with a
\* LastEvaluatedKey whenever items remain (and possibly when none does).
ScanPage(pool) ==
    \E page \in SUBSET pool, key \in BOOLEAN :
        /\ (pool \ page # {}) => key
        /\ resp' = [Items |-> page, LastEvaluatedKey |-> key]
        /\ unscanned' = pool \ page
        /\ oplog' = Append(oplog, Op("scan", 0))
        /\ pc' = "page"

\* Line 83.
LimpiarScanFirst ==
    /\ pc = "limpiar"
    /\ table0' = table
    /\ ScanPage(table)
    /\ UNCHANGED <<run, event, req, start, end, year, upstream, resumen,
                   all_items_to_insert, uuid_n, table, count, response, raised, prev, dt>>

\* Line 99.
LimpiarScanNext ==
    /\ pc = "scan"
    /\ ScanPage(unscanned)
    /\ UNCHANGED <<run, event, req, start, end, year, upstream, resumen,
                   all_items_to_insert, uuid_n, table, count, response, raised,
                   table0, prev, dt>>

\* table.scan raises (line 83 or 99).
LimpiarScanRaises ==
    /\ pc \in {"limpiar", "scan"}
    /\ table0' = IF pc = "limpiar" THEN table ELSE table0
    /\ oplog' = Append(oplog, Op("scan", 0))
    /\ raised' = "scan"
    /\ pc' = LimpiarFailed("scan").pc
    /\ response' = LimpiarFailed("scan").response
    /\ UNCHANGED <<run, event, req, start, end, year, upstream, resumen,
                   all_items_to_insert, uuid_n, table, unscanned, resp, count, prev, dt>>

\* Lines 89-102: the page is empty and the loop ends, or its items are
\* deleted and the loop goes on to the next scan or ends.
LimpiarPage ==
    /\ pc = "page"
    /\ IF BreakOnEmptyPage(resp)
       THEN /\ pc' = "insert"
            /\ UNCHANGED <<table, oplog>>
       ELSE /\ table' = DeleteItems(table, resp.Items)
            /\ oplog' = Append(oplog, Op("delete", 0))
            /\ pc' = IF resp.LastEvaluatedKey THEN "scan" ELSE "insert"
    /\ UNCHANGED <<run, event, req, start, end, year, upstream, resumen,
                   all_items_to_insert, uuid_n, unscanned, resp, count, response,
                   raised, table0, prev, dt>>

\* The batch of deletes of lines 92-96 raises; part of it may have been done.
LimpiarDeleteRaises ==
    /\ pc = "page"
    /\ ~BreakOnEmptyPage(resp)
    /\ \E deleted \in SUBSET resp.Items : table' = DeleteItems(table, deleted)
    /\ oplog' = Append(oplog, Op("delete", 0))
    /\ raised' = "delete"
    /\ pc' = LimpiarFailed("delete").pc
    /\ response' = LimpiarFailed("delete").response
    /\ UNCHANGED <<run, event, req, start, end, year, upstream, resumen,
                   all_items_to_insert, uuid_n, unscanned, resp, count, table0, prev, dt>>

(***************************************************************************)
(* insertar_items (lines 107-115) and its call (lines 219-227).            *)
(***************************************************************************)
\* Lines 111-113: one put.
InsertarPut ==
    /\ pc = "insert"
    /\ count < Len(all_items_to_insert)
    /\ table' = PutItem(table, all_items_to_insert[count + 1])
    /\ count' = count + 1
    /\ oplog' = Append(oplog, Op("put", 0))
    /\ UNCHANGED <<dt, pc, run, event, req, start, end, year, upstream, resumen,
                   all_items_to_insert, uuid_n, unscanned, resp, response, raised,
                   table0, prev>>

\* The batch of puts raises (there is no request to the table without items).
InsertarRaises ==
    /\ pc = "insert"
    /\ Len(all_items_to_insert) > 0
    /\ oplog' = Append(oplog, Op("put", 0))
    /\ raised' = "insert"
    /\ pc' = InsertarFailed("insert").pc
    /\ response' = InsertarFailed("insert").response
    /\ UNCHANGED <<run, event, req, start, end, year, upstream, resumen,
                   all_items_to_insert, uuid_n, table, unscanned, resp, count,
                   table0, prev, dt>>

\* Lines 115, 221, 227: the count goes into the summary, which is returned.
InsertarDone ==
    /\ pc = "insert"
    /\ count = Len(all_items_to_insert)
    /\ resumen' = [resumen EXCEPT !.total_inserted = count]
    /\ response' = http_ok(resumen')
    /\ pc' = "done"
    /\ UNCHANGED <<run, event, req, start, end, year, upstream, all_items_to_insert,
                   uuid_n, table, unscanned, resp, count, oplog, raised, table0, prev, dt>>

(***************************************************************************)
(* The next invocation: the table, the API and uuid4 go on as they are.    *)
(***************************************************************************)
RunAgain ==
    /\ pc = "done"
    /\ run < MaxRuns
    /\ run' = run + 1
    /\ prev' = response.statusCode
    /\ pc' = "start"
    /\ event' \in Events
    /\ req' = [start |-> 0, end |-> 0, bad_body |-> FALSE]
    /\ start' = 0
    /\ end' = 0
    /\ year' = 0
    /\ resumen' = EmptyResumen
    /\ all_items_to_insert' = <<>>
    /\ unscanned' = {}
    /\ resp' = NoScan
    /\ count' = 0
    /\ response' = NoResponse
    /\ oplog' = <<>>
    /\ raised' = ""
    /\ table0' = {}
    /\ UNCHANGED <<upstream, uuid_n, table, dt>>

NextOneRun ==
    \/ ReadEvent
    \/ ProcesarAnio
    \/ LimpiarScanFirst
    \/ LimpiarScanNext
    \/ LimpiarScanRaises
    \/ LimpiarPage
    \/ LimpiarDeleteRaises
    \/ InsertarPut
    \/ InsertarRaises
    \/ InsertarDone

Next == NextOneRun \/ RunAgain

\* One invocation.
Spec == Init /\ [][NextOneRun]_vars

\* Invocations in succession.
SpecRuns == Init /\ [][Next]_vars

(***************************************************************************)
(* unir_fecha_hora on its own: line 197, for any two field values and any  *)
(* local zone of the process.                                              *)
(***************************************************************************)
LocalZones == {0, -300}

InitFecha ==
    /\ pc = "fecha"
    /\ run = 1
    /\ event = EventRead
    /\ req = [start |-> 0, end |-> 0, bad_body |-> FALSE]
    /\ start = 0
    /\ end = 0
    /\ year = 0
    /\ upstream = [y \in AllYears |-> NotFetched]
    /\ resumen = EmptyResumen
    /\ all_items_to_insert = <<>>
    /\ uuid_n = 0
    /\ table = {}
    /\ unscanned = {}
    /\ resp = NoScan
    /\ count = 0
    /\ response = NoResponse
    /\ oplog = <<>>
    /\ raised = ""
    /\ table0 = {}
    /\ prev = 0
    /\ \E f \in DateTexts, h \in DateTexts, z \in LocalZones :
          dt = [called |-> FALSE, fecha_str |-> f, hora_str |-> h, local |-> z,
                result |-> NullText]

UnirFechaHora ==
    /\ pc = "fecha"
    /\ ~dt.called
    /\ dt' = [dt EXCEPT !.called = TRUE,
                        !.result = unir_fecha_hora(dt.fecha_str, dt.hora_str, dt.local)]
    /\ UNCHANGED <<pc, run, event, req, start, end, year, upstream, resumen,
                   all_items_to_insert, uuid_n, table, unscanned, resp, count,
                   response, oplog, raised, table0, prev>>

NextFecha == UnirFechaHora

SpecFecha == InitFecha /\ [][NextFecha]_vars

(***************************************************************************)
(* Vocabulary of the properties.                                           *)
(***************************************************************************)
\* The years requested from the API in this run, in order.
RECURSIVE FetchedYears(_)
FetchedYears(log) ==
    IF log = <<>> THEN <<>>
    ELSE IF Head(log).op = "fetch" THEN <<Head(log).arg>> \o FetchedYears(Tail(log))
    ELSE FetchedYears(Tail(log))

Fetched(y) == \E i \in DOMAIN oplog : oplog[i] = Op("fetch", y)

\* The fetch of a year fails: no answer, a 200 whose body does not parse, or a
\* status other than 200 and 404.
FetchFails(r) ==
    r.neterr \/ (r.status = 200 /\ ~r.parses) \/ r.status \notin {200, 404}

\* Every element of the arrays the API has returned so far is a JSON object,
\* as the API promises.
ObjectsOnly ==
    \A y \in AllYears : \A i \in DOMAIN upstream[y].data : upstream[y].data[i].is_map

Entries(seq, y) == {i \in DOMAIN seq : seq[i].year = y}

Lo == IF req.start <= req.end THEN req.start ELSE req.end
Hi == IF req.start <= req.end THEN req.end ELSE req.start

(***************************************************************************)
(* C1: whenever limpiar_tabla returns normally, the last scan response it   *)
(* consumed carried no LastEvaluatedKey and every item that was in the table *)
(* when it started has been deleted, whatever the pages were (empty pages   *)
(* included).                                                              *)
(***************************************************************************)
C1_LimpiarDeletesEverything ==
    (pc = "insert" /\ count = 0) =>
        /\ table \cap table0 = {}
        /\ ~resp.LastEvaluatedKey

(***************************************************************************)
(* C2: after two runs in succession that both return 200, over an upstream *)
(* that did not change, the table holds as many items as the second run's  *)
(* total_inserted and no item of the first run.                            *)
(***************************************************************************)
C2_SecondRunReplacesFirst ==
    (run = 2 /\ pc = "done" /\ prev = 200 /\ response.statusCode = 200) =>
        /\ Cardinality(table) = response.body.total_inserted
        /\ \A it \in table : it.procesado_en = run

(***************************************************************************)
(* C3: if limpiar_tabla raises (first scan, later scan or delete), the     *)
(* handler returns statusCode 500 with a body whose only key is error, and *)
(* no put is attempted in that run.                                        *)
(***************************************************************************)
C3_LimpiarRaisesNoInsert ==
    raised \in {"scan", "delete"} =>
        /\ pc = "done"
        /\ response.statusCode = 500
        /\ DOMAIN response.body = {"error"}
        /\ count = 0
        /\ \A i \in DOMAIN oplog : oplog[i].op # "put"

C3_Witness ==
    /\ raised = "delete"
    /\ pc = "done"
    /\ Len(all_items_to_insert) > 0
    /\ \E i \in DOMAIN oplog : oplog[i].op = "delete"
    /\ Len(SelectSeq(oplog, LAMBDA o : o.op = "scan")) > 1

(***************************************************************************)
(* C4: in every run no scan or delete comes before the fetch of the last   *)
(* year of the range, no put comes before the last delete, and deletes and *)
(* puts are not interleaved.                                               *)
(***************************************************************************)
C4_TableOperationsOrdered ==
    \A i \in DOMAIN oplog :
        /\ oplog[i].op \in {"scan", "delete", "put"} =>
              \E k \in 1..(i - 1) : oplog[k] = Op("fetch", end)
        /\ oplog[i].op \in {"scan", "delete", "put"} =>
              \A j \in (i + 1)..Len(oplog) : oplog[j].op # "fetch"
        /\ oplog[i].op = "put" =>
              \A j \in (i + 1)..Len(oplog) : oplog[j].op = "put"

C4_Witness ==
    /\ pc = "done"
    /\ response.statusCode = 200
    /\ Len(FetchedYears(oplog)) > 1
    /\ Len(SelectSeq(oplog, LAMBDA o : o.op = "delete")) > 1
    /\ Len(SelectSeq(oplog, LAMBDA o : o.op = "put")) > 1

(***************************************************************************)
(* C5: for every year whose fetch fails, errors holds one entry for the    *)
(* year (with error "HTTP <status>" for a bad status), no record of that   *)
(* year is among the records to insert or inserted, the loop goes on to    *)
(* the later years of the range, and the run ends with statusCode 200 if   *)
(* the delete and insert phases complete.  (The later years are fetched    *)
(* unless the array of one of them holds an element that is not a JSON     *)
(* object: that is the exception of C10, which ends the run.)              *)
(***************************************************************************)
C5_FailedYearIsRecordedAndSkipped ==
    \A y \in AllYears :
        (Fetched(y) /\ FetchFails(upstream[y])) =>
            /\ Cardinality(Entries(resumen.errors, y)) = 1
            /\ (~upstream[y].neterr /\ upstream[y].status # 200) =>
                  \A i \in Entries(resumen.errors, y) :
                      resumen.errors[i].error = ErrHttp(upstream[y].status)
            /\ Entries(resumen.years_processed, y) = {}
            /\ Entries(all_items_to_insert, y) = {}
            /\ \A it \in table : ~(it.year = y /\ it.procesado_en = run)
            /\ \A y2 \in (y + 1)..end :
                  \/ Fetched(y2)
                  \/ pc = "years" /\ year <= y2
                  \/ raised = "normalize" /\ ~ObjectsOnly
            /\ (pc = "done" /\ raised = "") =>
                  (response.statusCode = 200 /\ response.body.errors = resumen.errors)

C5_Witness ==
    /\ pc = "done"
    /\ response.statusCode = 200
    /\ start < end
    /\ upstream[start] =
          [neterr |-> FALSE, status |-> 503, parses |-> TRUE,
           data |-> <<[is_map |-> TRUE, id |-> PyStr("a"), year |-> start]>>]
    /\ response.body.errors = <<[year |-> start, error |-> ErrHttp(503)]>>
    /\ response.body.total_inserted = 1

(***************************************************************************)
(* C6: for every year the API answers with 404, years_processed holds      *)
(* {year, count: 0} and errors holds no entry for it; every year fetched   *)
(* with ok = true (its array holding JSON objects) is in years_processed   *)
(* exactly once, with the number of records it produced, possibly 0.       *)
(***************************************************************************)
C6_OkYearIsCountedOnce ==
    \A y \in AllYears :
        (/\ Fetched(y)
         /\ ~FetchFails(upstream[y])
         /\ upstream[y].status = 200 =>
               \A i \in DOMAIN upstream[y].data : upstream[y].data[i].is_map) =>
            /\ Cardinality(Entries(resumen.years_processed, y)) = 1
            /\ \A i \in Entries(resumen.years_processed, y) :
                  /\ resumen.years_processed[i].count =
                        Cardinality(Entries(all_items_to_insert, y))
                  /\ upstream[y].status = 404 => resumen.years_processed[i].count = 0
                  /\ upstream[y].status = 200 =>
                        resumen.years_processed[i].count = Len(upstream[y].data)
            /\ Entries(resumen.errors, y) = {}

C6_Witness ==
    /\ pc = "done"
    /\ response.statusCode = 200
    /\ start < end
    /\ upstream[start].status = 404
    /\ Len(upstream[end].data) > 0
    /\ response.body.years_processed =
          <<[year |-> start, count |-> 0], [year |-> end, count |-> Len(upstream[end].data)]>>
    /\ response.body.errors = <<>>

(***************************************************************************)
(* C7: every record handed to insertar_items has a non-empty id: a raw     *)
(* record with a non-empty id keeps it, any other raw record (id missing,  *)
(* null or empty) gets a freshly generated unique string.                  *)
(***************************************************************************)
C7_EveryRecordHasNonEmptyId ==
    \A i \in DOMAIN all_items_to_insert : Truthy(all_items_to_insert[i].id)

(***************************************************************************)
(* C8: the loop fetches the years min(start_year, end_year) up to          *)
(* max(start_year, end_year), each once, in ascending order: the years     *)
(* fetched so far are always the first ones of that range, and all of it   *)
(* once the loop has ended.                                                *)
(***************************************************************************)
C8_YearsFetchedAscendingOnce ==
    (pc # "start" /\ raised # "event") =>
        LET F == FetchedYears(oplog)
        IN  /\ \A i \in DOMAIN F : F[i] = Lo + i - 1
            /\ Len(F) <= Hi - Lo + 1
            /\ pc = "years" => (Len(F) < Hi - Lo + 1 /\ year = Lo + Len(F))
            /\ (pc \in {"limpiar", "scan", "page", "insert"}
                \/ (pc = "done" /\ raised # "normalize")) => Len(F) = Hi - Lo + 1

C8_Witness ==
    /\ pc = "done"
    /\ req.start = DEFAULT_START_YEAR
    /\ req.end = DEFAULT_START_YEAR - 1
    /\ FetchedYears(oplog) = <<DEFAULT_START_YEAR - 1, DEFAULT_START_YEAR>>

(***************************************************************************)
(* C10: an exception raised while the handler reads the event, the body or *)
(* the years, or while it normalizes, does not leave the handler: it       *)
(* returns statusCode 500 with body {error}; a body string that does not   *)
(* parse is read as an empty mapping, not as an error.                     *)
(***************************************************************************)
C10_ExceptionsBecome500 ==
    /\ pc # "escaped"
    /\ raised \in {"event", "normalize"} =>
          /\ pc = "done"
          /\ response.statusCode = 500
          /\ DOMAIN response.body = {"error"}
          /\ response.body.error.prefix = "Error inesperado"
    /\ req.bad_body =>
          /\ raised # "event"
          /\ pc # "start" =>
                (req.start = DEFAULT_START_YEAR /\ req.end = DEFAULT_END_YEAR)

C10_Witness ==
    /\ raised = "normalize"
    /\ req.bad_body
    /\ response.statusCode = 500

(***************************************************************************)
(* C9: when the date field and the time field both parse, whatever offset  *)
(* each carries, unir_fecha_hora returns the date's year, month and day    *)
(* with the time's hour, minute and second, in UTC, with millisecond       *)
(* precision and a literal Z suffix.                                       *)
(***************************************************************************)
C9_DateAndClockMerged ==
    (dt.called /\ parse_iso_z(dt.fecha_str).ok /\ parse_iso_z(dt.hora_str).ok) =>
        LET f == parse_iso_z(dt.fecha_str).dt
            h == parse_iso_z(dt.hora_str).dt
        IN  /\ ~dt.result.isnull
            /\ <<dt.result.Y, dt.result.M, dt.result.D>> = <<f.Y, f.M, f.D>>
            /\ <<dt.result.h, dt.result.m, dt.result.sec>> = <<h.h, h.m, h.sec>>
            /\ dt.result.frac_digits = 3
            /\ dt.result.suffix = "Z"

====
